---- MODULE Spec2Model ----
(***************************************************************************)
(* Task manager: the row-level-security rule set of the schema migration   *)
(* and the client handlers that issue requests against it.                 *)
(*                                                                         *)
(* The database is the tables profiles, tasks and task_assignees.  Every   *)
(* request is evaluated under the policies of the migration with the       *)
(* semantics PostgreSQL gives them:                                        *)
(*   - permissive policies of one command are OR-ed;                       *)
(*   - a row failing USING is silently skipped (0 rows, no error);         *)
(*   - a new row failing WITH CHECK aborts the statement with an error;    *)
(*   - UPDATE and DELETE with a WHERE clause also need the SELECT          *)
(*     policies on the existing row, and UPDATE on the new row;            *)
(*   - a command with no policy at all is denied for every row.            *)
(***************************************************************************)
EXTENDS Integers, FiniteSets, Sequences, Bags, TLC

VARIABLES profiles, tasks, task_assignees, auth, list, modal, trash, team, last, steps,
          task_comments, comments, accounts, clock, txn, task_attachments, snapshot

vars == <<profiles, tasks, task_assignees, auth, list, modal, trash, team, last, steps,
          task_comments, comments, accounts, clock, txn, task_attachments, snapshot>>

\* auth.users, the time, and the transactions that are open
platform == <<accounts, clock, txn, task_attachments, snapshot>>

\* what the requests on profiles, tasks and assignments leave alone
others == <<task_comments, comments, accounts, clock, txn, task_attachments,
           snapshot>>

(* ------------------------------ bounds -------------------------------- *)
\* users of the team, task ids, and the length of a run: client steps with
\* one admin, REST requests, client steps with two admins; comment ids and
\* the length of a run on the comments; the length of a run of saves and
\* of a run of sign-ups
MaxUsers == 3
MaxTasks == 2
MaxSteps == 3
MaxRequests == 2
MaxAdminSteps == 2
MaxComments == 2
MaxCommentSteps == 2
MaxSaveSteps == 6
MaxSignupSteps == 3
MaxClock == 2
MaxClockSteps == 5
MaxAttachments == 2
MaxPurgeSteps == 2
MaxTrashSteps == 3
MaxCreateSteps == 3
MaxRoleSteps == 4
MaxStaleSteps == 2
MaxDashboardSteps == 3
MaxFilterSteps == 3

Users == 1..MaxUsers
TaskIds == 1..MaxTasks
CommentIds == 1..MaxComments
AttachmentIds == 1..MaxAttachments

(* --------------------------- column domains --------------------------- *)
NULL == "NULL"
NoTask == 0
NoTxn == -1
NoSnapshot == [op |-> "none"]

Roles == {"admin", "employee"}
Statuses == {"to_do", "in_progress", "done"}
Priorities == {"low", "medium", "high"}
Categories == {"work", "personal"}
ProfileStatuses == {"active", "disabled"}

\* new Date().toISOString(): some non-null timestamp
Now == "ts"

\* the email address of the account of k, and 'user_' || id
EmailOf(k) == <<"email", k>>
Placeholder(id) == <<"user_", id>>

\* the email of an account that has none
NoEmail == <<"null", 0>>

\* the value of an <input type="date"> that was left empty
EmptyString == ""

SomeDate == "2026-01-01"

(* ------------------------------ helpers ------------------------------- *)
\* UPDATE ... SET: the columns of the patch replace those of the row
Merge(row, patch) ==
  [c \in DOMAIN row |-> IF c \in DOMAIN patch THEN patch[c] ELSE row[c]]

\* column types and CHECK constraints of the tasks table
TaskRowError(row) ==
  IF row.due_date = EmptyString THEN "22007"
  ELSE IF row.title = NULL THEN "23502"
  ELSE IF row.status \notin Statuses
          \/ row.priority \notin Priorities
          \/ row.category \notin Categories THEN "23514"
  ELSE ""

\* column types and CHECK constraints of the profiles table
ProfileRowError(row) ==
  IF row.role \notin Roles \/ row.status \notin ProfileStatuses THEN "23514"
  ELSE ""

(* ------------------------------ policies ------------------------------ *)

\* slip: the profile of an admin must also be active
IsAdmin_ActiveOnly(uid) ==
  /\ uid \in DOMAIN profiles
  /\ profiles[uid].role = "admin"
  /\ profiles[uid].status = "active"

\* EXISTS (SELECT 1 FROM profiles WHERE id = auth.uid() AND role = 'admin')
IsAdmin(uid) ==
  uid \in DOMAIN profiles /\ profiles[uid].role = "admin"

\* slip: the user of the assignment is not compared with the caller
IsAssignee_AnyUser(id, uid) ==
  \E r \in DOMAIN task_assignees : r.task_id = id

\* EXISTS (SELECT 1 FROM task_assignees WHERE task_id = tasks.id AND user_id = auth.uid())
IsAssignee(id, uid) ==
  BagIn([task_id |-> id, user_id |-> uid], task_assignees)

ProfilesSelectUsing(uid, id, row) ==
  row.status = "active" \/ id = uid

ProfilesUpdateUsing(uid, id, row) ==
  id = uid \/ IsAdmin(uid)

ProfilesUpdateCheck(uid, id, row) ==
  id = uid \/ IsAdmin(uid)


\* slip: the trash is shown to every authenticated user
TasksSelectUsing_AnyRole(uid, row) ==
  \/ row.is_deleted = FALSE
  \/ row.is_deleted = TRUE

TasksSelectUsing(uid, row) ==
  \/ row.is_deleted = FALSE
  \/ row.is_deleted = TRUE /\ IsAdmin(uid)


\* slip: every authenticated user may insert
TasksInsertCheck_Anyone(uid, row) ==
  TRUE

TasksInsertCheck(uid, row) ==
  IsAdmin(uid)


\* slip: a task that is done is closed for its assignees
TasksUpdateUsing_DoneIsFinal(uid, id, row) ==
  \/ IsAdmin(uid)
  \/ IsAssignee(id, uid) /\ ~row.is_deleted /\ row.status # "done"

TasksUpdateUsing(uid, id, row) ==
  \/ IsAdmin(uid)
  \/ IsAssignee(id, uid) /\ ~row.is_deleted

TasksUpdateCheck(uid, id, row) ==
  \/ IsAdmin(uid)
  \/ IsAssignee(id, uid) /\ ~row.is_deleted


\* the policy the header of the migration announces: admins delete tasks
TasksDeleteUsing_Admin(uid, row) ==
  IsAdmin(uid)

\* the migration creates no DELETE policy on tasks
TasksDeleteUsing(uid, row) ==
  FALSE

AssigneesSelectUsing(uid, row) ==
  TRUE

AssigneesInsertCheck(uid, row) ==
  IsAdmin(uid)

AssigneesDeleteUsing(uid, row) ==
  IsAdmin(uid)

\* EXISTS (SELECT 1 FROM tasks WHERE tasks.id = task_id AND tasks.is_deleted = false),
\* the subquery running under the SELECT policies of tasks for the caller
\* slip: the task must also be one the caller is admin of or assigned to
TaskNotDeleted_ForAssignees(uid, id) ==
  /\ id \in DOMAIN tasks
  /\ TasksSelectUsing(uid, tasks[id])
  /\ tasks[id].is_deleted = FALSE
  /\ IsAdmin(uid) \/ IsAssignee(id, uid)

TaskNotDeleted(uid, id) ==
  /\ id \in DOMAIN tasks
  /\ TasksSelectUsing(uid, tasks[id])
  /\ tasks[id].is_deleted = FALSE


\* slip: the comments of a task in the trash stay readable
CommentsSelectUsing_Always(uid, row) ==
  row.task_id \in DOMAIN tasks

CommentsSelectUsing(uid, row) ==
  TaskNotDeleted(uid, row.task_id)


\* slip: the parent task is only required to exist
CommentsInsertCheck_AnyTask(uid, row) ==
  row.task_id \in DOMAIN tasks

CommentsInsertCheck(uid, row) ==
  TaskNotDeleted(uid, row.task_id)


\* slip: admins may moderate the comments of others
CommentsUpdateUsing_OrAdmin(uid, row) ==
  row.user_id = uid \/ IsAdmin(uid)

CommentsUpdateUsing(uid, row) ==
  row.user_id = uid

CommentsUpdateCheck(uid, row) ==
  row.user_id = uid

CommentsDeleteUsing(uid, row) ==
  row.user_id = uid


AttachmentsSelectUsing(uid, row) ==
  TaskNotDeleted(uid, row.task_id)

AttachmentsInsertCheck(uid, row) ==
  TaskNotDeleted(uid, row.task_id)

\* "Users can delete own attachments", "Admins can delete any attachment"
AttachmentsDeleteUsing(uid, row) ==
  row.uploaded_by = uid \/ IsAdmin(uid)

(* ----------------------------- statements ----------------------------- *)
\* Every statement yields [err, n, ...]: the error code ("" for none), the
\* number of rows it affected, and the tables it leaves.

\* rows of task_assignees that belong to task id
AssigneeRows(id) ==
  {r \in DOMAIN task_assignees : r.task_id = id}

\* the assignee set of task id
AssigneesOf(id) ==
  {r.user_id : r \in AssigneeRows(id)}


\* slip: the trigger keeps a value the request supplies
update_updated_at_column_IfAbsent(new, patch, t) ==
  IF "updated_at" \in DOMAIN patch THEN new ELSE [new EXCEPT !.updated_at = t]

\* BEFORE UPDATE FOR EACH ROW: NEW.updated_at = now(), the time t at which
\* the transaction of the request started
update_updated_at_column(new, patch, t) ==
  [new EXCEPT !.updated_at = t]

\* UPDATE tasks SET patch WHERE id = id, issued by uid in a transaction
\* that started at t
UpdateTaskAt(uid, id, patch, t) ==
  IF id \notin DOMAIN tasks
     \/ ~(TasksSelectUsing(uid, tasks[id]) /\ TasksUpdateUsing(uid, id, tasks[id]))
  THEN [err |-> "", n |-> 0, tasks |-> tasks]
  ELSE LET new == update_updated_at_column(Merge(tasks[id], patch), patch, t) IN
       IF TaskRowError(new) # ""
       THEN [err |-> TaskRowError(new), n |-> 0, tasks |-> tasks]
       ELSE IF ~(TasksUpdateCheck(uid, id, new) /\ TasksSelectUsing(uid, new))
       THEN [err |-> "42501", n |-> 0, tasks |-> tasks]
       ELSE [err |-> "", n |-> 1, tasks |-> [tasks EXCEPT ![id] = new]]

\* the same in a transaction of its own, which starts now
UpdateTask(uid, id, patch) ==
  UpdateTaskAt(uid, id, patch, clock)

\* INSERT INTO tasks VALUES (row) RETURNING *, issued by uid; id is the
\* uuid the table default generates
InsertTask(uid, id, row) ==
  IF TaskRowError(row) # ""
  THEN [err |-> TaskRowError(row), n |-> 0, tasks |-> tasks]
  ELSE IF ~(TasksInsertCheck(uid, row) /\ TasksSelectUsing(uid, row))
  THEN [err |-> "42501", n |-> 0, tasks |-> tasks]
  ELSE [err |-> "", n |-> 1,
        tasks |-> [t \in DOMAIN tasks \cup {id} |->
                     IF t = id THEN row ELSE tasks[t]]]

\* DELETE FROM tasks WHERE id = id, issued by uid; the assignee rows of a
\* removed task go with it (ON DELETE CASCADE)
DeleteTask(uid, id) ==
  IF id \notin DOMAIN tasks
     \/ ~(TasksSelectUsing(uid, tasks[id]) /\ TasksDeleteUsing(uid, tasks[id]))
  THEN [err |-> "", n |-> 0, tasks |-> tasks, task_assignees |-> task_assignees]
  ELSE [err |-> "", n |-> 1,
        tasks |-> [t \in DOMAIN tasks \ {id} |-> tasks[t]],
        task_assignees |-> [r \in DOMAIN task_assignees \ AssigneeRows(id) |->
                              task_assignees[r]]]


\* slip: the table is created without the constraint
AssigneesUniqueViolation_None(rows) ==
  FALSE

\* UNIQUE(task_id, user_id): a row that is inserted repeats a stored pair
AssigneesUniqueViolation(rows) ==
  \E r \in rows : BagIn(r, task_assignees)

\* INSERT INTO task_assignees (task_id, user_id) for every user of us
InsertAssignees(uid, id, us) ==
  LET rows == {[task_id |-> id, user_id |-> u] : u \in us} IN
  IF \E r \in rows : ~AssigneesInsertCheck(uid, r)
  THEN [err |-> "42501", n |-> 0, task_assignees |-> task_assignees]
  ELSE IF rows # {} /\ id \notin DOMAIN tasks
  THEN [err |-> "23503", n |-> 0, task_assignees |-> task_assignees]
  ELSE IF AssigneesUniqueViolation(rows)
  THEN [err |-> "23505", n |-> 0, task_assignees |-> task_assignees]
  ELSE [err |-> "", n |-> Cardinality(rows),
        task_assignees |-> task_assignees (+) SetToBag(rows)]

\* DELETE FROM task_assignees WHERE task_id = id
DeleteAssignees(uid, id) ==
  LET rows == {r \in AssigneeRows(id) :
                 AssigneesSelectUsing(uid, r) /\ AssigneesDeleteUsing(uid, r)} IN
  [err |-> "", n |-> Cardinality(rows),
   task_assignees |-> [r \in DOMAIN task_assignees \ rows |-> task_assignees[r]]]

\* username text UNIQUE: another row of profiles has the username of row
ProfileUniqueViolation(id, row) ==
  \E p \in DOMAIN profiles \ {id} : profiles[p].username = row.username

\* UPDATE profiles SET patch WHERE id = id, issued by uid in a transaction
\* that started at t
UpdateProfileAt(uid, id, patch, t) ==
  IF id \notin DOMAIN profiles
     \/ ~(ProfilesSelectUsing(uid, id, profiles[id])
          /\ ProfilesUpdateUsing(uid, id, profiles[id]))
  THEN [err |-> "", n |-> 0, profiles |-> profiles]
  ELSE LET new == update_updated_at_column(Merge(profiles[id], patch), patch, t) IN
       IF ProfileRowError(new) # ""
       THEN [err |-> ProfileRowError(new), n |-> 0, profiles |-> profiles]
       ELSE IF ProfileUniqueViolation(id, new)
       THEN [err |-> "23505", n |-> 0, profiles |-> profiles]
       ELSE IF ~(ProfilesUpdateCheck(uid, id, new) /\ ProfilesSelectUsing(uid, id, new))
       THEN [err |-> "42501", n |-> 0, profiles |-> profiles]
       ELSE [err |-> "", n |-> 1, profiles |-> [profiles EXCEPT ![id] = new]]

\* UPDATE profiles SET patch WHERE id = id, issued by uid in a statement
\* whose snapshot is the table seen: the row is found, and the subqueries of
\* the policies read the profile of uid, in the snapshot; the row is locked
\* and written in its latest version, on which the conditions on the row
\* itself are checked again
UpdateProfileSeeing(uid, id, patch, seen, t) ==
  LET admin == uid \in DOMAIN seen /\ seen[uid].role = "admin"
      using == id = uid \/ admin IN
  IF id \notin DOMAIN seen
     \/ ~(ProfilesSelectUsing(uid, id, seen[id]) /\ using)
     \/ ~ProfilesSelectUsing(uid, id, profiles[id])
  THEN [err |-> "", n |-> 0, profiles |-> profiles]
  ELSE LET new == update_updated_at_column(Merge(profiles[id], patch), patch, t) IN
       IF ProfileRowError(new) # ""
       THEN [err |-> ProfileRowError(new), n |-> 0, profiles |-> profiles]
       ELSE IF ProfileUniqueViolation(id, new)
       THEN [err |-> "23505", n |-> 0, profiles |-> profiles]
       ELSE IF ~(using /\ ProfilesSelectUsing(uid, id, new))
       THEN [err |-> "42501", n |-> 0, profiles |-> profiles]
       ELSE [err |-> "", n |-> 1, profiles |-> [profiles EXCEPT ![id] = new]]

\* the same in a transaction of its own, which starts now
UpdateProfile(uid, id, patch) ==
  UpdateProfileAt(uid, id, patch, clock)

\* SELECT * FROM tasks [WHERE is_deleted = flt], issued by uid: the ids of
\* the rows returned; flt is "all", or the boolean the query filters on
SelectTasks(uid, flt) ==
  {t \in DOMAIN tasks :
     /\ TasksSelectUsing(uid, tasks[t])
     /\ (flt = "all" \/ tasks[t].is_deleted = (flt = "true"))}

\* SELECT * FROM profiles, issued by uid: the ids of the rows returned
SelectProfiles(uid) ==
  {p \in DOMAIN profiles : ProfilesSelectUsing(uid, p, profiles[p])}

\* NOT NULL and FOREIGN KEY constraints of the task_comments table
CommentRowError(row) ==
  IF row.content = NULL THEN "23502"
  ELSE IF row.task_id \notin DOMAIN tasks \/ row.user_id \notin DOMAIN profiles
  THEN "23503"
  ELSE ""

\* slip: row level security is not enabled on task_comments
InsertComment_NoPolicy(uid, id, row) ==
  IF CommentRowError(row) # ""
  THEN [err |-> CommentRowError(row), n |-> 0, task_comments |-> task_comments]
  ELSE [err |-> "", n |-> 1,
        task_comments |-> [c \in DOMAIN task_comments \cup {id} |->
                             IF c = id THEN row ELSE task_comments[c]]]

\* INSERT INTO task_comments VALUES (row), issued by uid; id is the uuid
\* the table default generates
InsertComment(uid, id, row) ==
  IF ~CommentsInsertCheck(uid, row)
  THEN [err |-> "42501", n |-> 0, task_comments |-> task_comments]
  ELSE IF CommentRowError(row) # ""
  THEN [err |-> CommentRowError(row), n |-> 0, task_comments |-> task_comments]
  ELSE [err |-> "", n |-> 1,
        task_comments |-> [c \in DOMAIN task_comments \cup {id} |->
                             IF c = id THEN row ELSE task_comments[c]]]

\* UPDATE task_comments SET patch WHERE id = id, issued by uid
UpdateComment(uid, id, patch) ==
  IF id \notin DOMAIN task_comments
     \/ ~(CommentsSelectUsing(uid, task_comments[id])
          /\ CommentsUpdateUsing(uid, task_comments[id]))
  THEN [err |-> "", n |-> 0, task_comments |-> task_comments]
  ELSE LET new == Merge(task_comments[id], patch) IN
       IF ~(CommentsUpdateCheck(uid, new) /\ CommentsSelectUsing(uid, new))
       THEN [err |-> "42501", n |-> 0, task_comments |-> task_comments]
       ELSE IF CommentRowError(new) # ""
       THEN [err |-> CommentRowError(new), n |-> 0, task_comments |-> task_comments]
       ELSE [err |-> "", n |-> 1,
             task_comments |-> [task_comments EXCEPT ![id] = new]]

\* DELETE FROM task_comments WHERE id = id, issued by uid
DeleteComment(uid, id) ==
  IF id \notin DOMAIN task_comments
     \/ ~(CommentsSelectUsing(uid, task_comments[id])
          /\ CommentsDeleteUsing(uid, task_comments[id]))
  THEN [err |-> "", n |-> 0, task_comments |-> task_comments]
  ELSE [err |-> "", n |-> 1,
        task_comments |-> [c \in DOMAIN task_comments \ {id} |-> task_comments[c]]]

\* SELECT * FROM task_comments WHERE task_id = id, issued by uid: the ids
\* of the rows returned
SelectComments(uid, id) ==
  {c \in DOMAIN task_comments :
     task_comments[c].task_id = id /\ CommentsSelectUsing(uid, task_comments[c])}

\* INSERT INTO task_attachments, issued by uid, of an attachment aid
InsertAttachment(uid, aid, row) ==
  IF ~AttachmentsInsertCheck(uid, row)
  THEN [err |-> "42501", n |-> 0, task_attachments |-> task_attachments]
  ELSE IF row.task_id \notin DOMAIN tasks
  THEN [err |-> "23503", n |-> 0, task_attachments |-> task_attachments]
  ELSE [err |-> "", n |-> 1,
        task_attachments |-> [a \in DOMAIN task_attachments \cup {aid} |->
                                IF a = aid THEN row ELSE task_attachments[a]]]

\* DELETE FROM task_attachments WHERE id = aid, issued by uid
DeleteAttachment(uid, aid) ==
  IF aid \notin DOMAIN task_attachments
     \/ ~(AttachmentsSelectUsing(uid, task_attachments[aid])
          /\ AttachmentsDeleteUsing(uid, task_attachments[aid]))
  THEN [err |-> "", n |-> 0, task_attachments |-> task_attachments]
  ELSE [err |-> "", n |-> 1,
        task_attachments |-> [a \in DOMAIN task_attachments \ {aid} |->
                                task_attachments[a]]]

\* task_id uuid REFERENCES tasks(id) ON DELETE CASCADE: what is left of the
\* three tables when the row of task id is deleted
AssigneesOnDeleteCascade(id) ==
  [r \in DOMAIN task_assignees \ AssigneeRows(id) |-> task_assignees[r]]

\* slip: the comments of a deleted task are kept
CommentsOnDeleteCascade_Kept(id) ==
  task_comments

CommentsOnDeleteCascade(id) ==
  [c \in {d \in DOMAIN task_comments : task_comments[d].task_id # id} |->
     task_comments[c]]

AttachmentsOnDeleteCascade(id) ==
  [a \in {d \in DOMAIN task_attachments : task_attachments[d].task_id # id} |->
     task_attachments[a]]

(* ------------------------------- inputs ------------------------------- *)
\* the form of the task modal as useState initialises it for a new task,
\* with the required title typed in
NewForm ==
  [title |-> "A", description |-> "", status |-> "to_do", priority |-> "medium",
   due_date |-> EmptyString, category |-> "work", tags |-> {}]

FormColumns == DOMAIN NewForm

\* what a user changes in the fields of the modal of a task before saving:
\* nothing, the status or the title
NoEdit == <<>>

FormEdits ==
  {NoEdit} \cup {[status |-> s] : s \in Statuses} \cup {[title |-> "B"]}

\* what a user fills in besides the title in the modal of a new task
CreateEdits ==
  {[due_date |-> SomeDate], [priority |-> "high"]}

\* the SET lists of the UPDATE requests a caller of the REST interface sends
TaskPatches ==
  {[status |-> s] : s \in Statuses}
    \cup {[status |-> "archived"], [title |-> "B"], [deleted_at |-> Now],
          [is_deleted |-> TRUE, deleted_at |-> Now],
          [is_deleted |-> FALSE, deleted_at |-> NULL]}

ProfilePatches ==
  {[role |-> r] : r \in Roles} \cup {[status |-> s] : s \in ProfileStatuses}

\* the SET lists of the UPDATE requests on task_comments
CommentPatches ==
  {[content |-> "edited"]}
    \cup {[user_id |-> v] : v \in Users} \cup {[task_id |-> t] : t \in TaskIds}

\* gen_random_uuid(): an id no row of task_comments has
\* the user_id a request of uid puts into a new comment: its own, or that
\* of the first user
CommentAuthors(uid) == {uid, 1}

NewAttachmentId ==
  CHOOSE i \in AttachmentIds \ DOMAIN task_attachments :
    \A j \in AttachmentIds \ DOMAIN task_attachments : i <= j

NewCommentId ==
  CHOOSE i \in CommentIds \ DOMAIN task_comments :
    \A j \in CommentIds \ DOMAIN task_comments : i <= j


\* slip: the flag is set and the timestamp forgotten
SoftDelete_FlagOnly == [is_deleted |-> TRUE]

\* the SET list of TaskModal.handleDelete
SoftDelete == [is_deleted |-> TRUE, deleted_at |-> Now]

\* slip: the flag is cleared and the timestamp kept
Restore_FlagOnly == [is_deleted |-> FALSE]

\* the SET list of Trash.handleRestore
Restore == [is_deleted |-> FALSE, deleted_at |-> NULL]

\* the row a task INSERT stores in a transaction that started at t: the
\* columns sent, the defaults for the rest
NewTaskRowAt(cols, t) ==
  Merge([title |-> NULL, description |-> "", status |-> "to_do",
         priority |-> "medium", due_date |-> NULL, category |-> "work",
         tags |-> {}, created_by |-> 0, is_deleted |-> FALSE,
         deleted_at |-> NULL, created_at |-> t, updated_at |-> t], cols)

\* the same in a transaction of its own, which starts now
NewTaskRow(cols) ==
  NewTaskRowAt(cols, clock)

\* gen_random_uuid(): an id no row of tasks has
NewId ==
  CHOOSE i \in TaskIds \ DOMAIN tasks : \A j \in TaskIds \ DOMAIN tasks : i <= j

\* the record of the request an action issued
Req(op, by, task, arg, res) ==
  [op |-> op, by |-> by, admin |-> IsAdmin(by), id |-> task, arg |-> arg,
   err |-> res.err, n |-> res.n, was |-> ""]

\* the record of a request on a row of tasks: also the status the row had
TaskReq(op, by, task, arg, res) ==
  [Req(op, by, task, arg, res) EXCEPT
     !.was = IF task \in DOMAIN tasks THEN tasks[task].status ELSE ""]

Idle == [pc |-> "idle", task |-> NoTask, users |-> {}]

\* a step of a client
Tick ==
  steps' = steps + 1

\* a request of a caller of the REST interface
Request ==
  steps' = steps + 1

(* ---------------------------- authorization --------------------------- *)
\* the rows of task_assignees, task_comments and task_attachments a request
\* can name
AssigneeCandidates ==
  {[task_id |-> t, user_id |-> v] : t \in TaskIds, v \in Users}

CommentCandidates ==
  {[task_id |-> t, user_id |-> v, content |-> "text"] : t \in TaskIds, v \in Users}

AttachmentCandidates ==
  {[task_id |-> t, uploaded_by |-> v] : t \in TaskIds, v \in Users}

\* what the policies of tasks, task_assignees, task_comments and
\* task_attachments decide for the subject uid on every row and action
Decisions(uid) ==
  [tasks_select |-> {t \in DOMAIN tasks : TasksSelectUsing(uid, tasks[t])},
   tasks_insert |-> TasksInsertCheck(uid, NewTaskRow([title |-> "A"])),
   tasks_update |-> [t \in DOMAIN tasks |->
                       [p \in TaskPatches |->
                          <<UpdateTask(uid, t, p).err, UpdateTask(uid, t, p).n>>]],
   tasks_delete |-> {t \in DOMAIN tasks : DeleteTask(uid, t).n = 1},
   assignees_select |-> {r \in AssigneeCandidates : AssigneesSelectUsing(uid, r)},
   assignees_insert |-> {r \in AssigneeCandidates : AssigneesInsertCheck(uid, r)},
   assignees_delete |-> {r \in AssigneeCandidates : AssigneesDeleteUsing(uid, r)},
   comments_select |-> {r \in CommentCandidates : CommentsSelectUsing(uid, r)},
   comments_insert |-> {r \in CommentCandidates : CommentsInsertCheck(uid, r)},
   comments_update |-> {r \in CommentCandidates :
                          /\ CommentsSelectUsing(uid, r)
                          /\ CommentsUpdateUsing(uid, r)
                          /\ CommentsUpdateCheck(uid, r)},
   comments_delete |-> {r \in CommentCandidates :
                          CommentsSelectUsing(uid, r) /\ CommentsDeleteUsing(uid, r)},
   attachments_select |-> {r \in AttachmentCandidates : AttachmentsSelectUsing(uid, r)},
   attachments_insert |-> {r \in AttachmentCandidates : AttachmentsInsertCheck(uid, r)},
   attachments_delete |-> {r \in AttachmentCandidates :
                             /\ AttachmentsSelectUsing(uid, r)
                             /\ AttachmentsDeleteUsing(uid, r)}]

(* ------------------- requests on the REST interface ------------------- *)
\* PATCH /tasks?id=eq.id
ApiUpdateTask(uid, id, patch) ==
  LET res == UpdateTask(uid, id, patch) IN
  /\ Request
  /\ tasks' = res.tasks
  /\ last' = TaskReq("update_task", uid, id, patch, res)
  /\ UNCHANGED <<profiles, task_assignees, auth, list, modal, trash, team>>

\* POST /tasks
ApiInsertTask(uid, cols) ==
  LET id == NewId
      res == InsertTask(uid, id, NewTaskRow(cols)) IN
  /\ Request
  /\ DOMAIN tasks # TaskIds
  /\ tasks' = res.tasks
  /\ last' = Req("insert_task", uid, id, cols, res)
  /\ UNCHANGED <<profiles, task_assignees, auth, list, modal, trash, team>>

\* DELETE /tasks?id=eq.id
ApiDeleteTask(uid, id) ==
  LET res == DeleteTask(uid, id) IN
  /\ Request
  /\ tasks' = res.tasks
  /\ task_assignees' = res.task_assignees
  /\ last' = TaskReq("delete_task", uid, id, <<>>, res)
  /\ UNCHANGED <<profiles, auth, list, modal, trash, team>>

\* GET /tasks[?is_deleted=eq.flt]
ApiSelectTasks(uid, flt) ==
  /\ Request
  /\ last' = Req("select_tasks", uid, NoTask, [rows |-> SelectTasks(uid, flt)],
                 [err |-> "", n |-> Cardinality(SelectTasks(uid, flt))])
  /\ UNCHANGED <<profiles, tasks, task_assignees, auth, list, modal, trash, team>>

\* POST /task_assignees
ApiInsertAssignees(uid, id, us) ==
  LET res == InsertAssignees(uid, id, us) IN
  /\ Request
  /\ task_assignees' = res.task_assignees
  /\ last' = Req("insert_assignees", uid, id, [users |-> us], res)
  /\ UNCHANGED <<profiles, tasks, auth, list, modal, trash, team>>

\* DELETE /task_assignees?task_id=eq.id
ApiDeleteAssignees(uid, id) ==
  LET res == DeleteAssignees(uid, id) IN
  /\ Request
  /\ task_assignees' = res.task_assignees
  /\ last' = Req("delete_assignees", uid, id, <<>>, res)
  /\ UNCHANGED <<profiles, tasks, auth, list, modal, trash, team>>

\* PATCH /profiles?id=eq.id
ApiUpdateProfile(uid, id, patch) ==
  LET res == UpdateProfile(uid, id, patch) IN
  /\ Request
  /\ profiles' = res.profiles
  /\ last' = Req("update_profile", uid, id, patch, res)
  /\ UNCHANGED <<tasks, task_assignees, auth, list, modal, trash, team>>

(* ------------------------------- client ------------------------------- *)
\* the pages are rendered for a signed-in, not disabled profile
SignedIn(u) ==
  u \in DOMAIN auth /\ auth[u].status = "active"

\* const isAdmin = profile?.role === 'admin'
isAdmin(u) ==
  auth[u].role = "admin"

\* the auth context fetches the profile row of the signed-in user
FetchProfile(u) ==
  /\ Tick
  /\ u \in SelectProfiles(u)
  /\ auth[u] # profiles[u]
  /\ auth' = [auth EXCEPT ![u] = profiles[u]]
  /\ last' = Req("fetch_profile", u, u, <<>>, [err |-> "", n |-> 1])
  /\ UNCHANGED <<profiles, tasks, task_assignees, list, modal, trash, team>>

\* the embedded profiles(*) of the assignee rows of task id as uid gets
\* them: a profile the SELECT policy hides from uid is embedded as null
Embedded(uid, id) ==
  [assignees |-> AssigneesOf(id) \cap SelectProfiles(uid),
   nulls |-> AssigneesOf(id) \ SelectProfiles(uid) # {}]

\* Tasks.loadTasks: the non-deleted tasks with their assignees.  (The loads
\* of the pages are steps only when they change what the page shows.)
LoadedTasks(u) ==
  [t \in SelectTasks(u, "false") |->
     [row |-> tasks[t],
      assignees |-> Embedded(u, t).assignees,
      nulls |-> Embedded(u, t).nulls]]

loadTasks(u) ==
  /\ Tick
  /\ SignedIn(u)
  /\ modal[u].pc = "idle"
  /\ list[u] # LoadedTasks(u)
  /\ list' = [list EXCEPT ![u] = LoadedTasks(u)]
  /\ last' = Req("loadTasks", u, NoTask, <<>>,
                 [err |-> "", n |-> Cardinality(SelectTasks(u, "false"))])
  /\ UNCHANGED <<profiles, tasks, task_assignees, auth, modal, trash, team>>

\* Tasks.handleDrop: a card of the list is dropped on the column newStatus
handleDrop(u, taskId, newStatus) ==
  LET res == UpdateTask(u, taskId, [status |-> newStatus]) IN
  /\ Tick
  /\ SignedIn(u)
  /\ modal[u].pc = "idle"
  /\ taskId \in DOMAIN list[u]
  /\ tasks' = res.tasks
  /\ UNCHANGED <<profiles, task_assignees, auth, modal, trash, team>>
  /\ list' = IF res.err = "" THEN [list EXCEPT ![u] = LoadedTasks(u)'] ELSE list
  /\ last' = TaskReq("handleDrop", u, taskId, [status |-> newStatus], res)

\* TaskModal.onClose as the Tasks page passes it: the modal closes and the
\* list is loaded again
onClose(u) ==
  /\ modal' = [modal EXCEPT ![u] = Idle]
  /\ list' = [list EXCEPT ![u] = LoadedTasks(u)']

\* the form of the modal opened on the list entry e, before any edit
FormOf(e) ==
  [c \in FormColumns |->
     IF c = "due_date" /\ e.row.due_date = NULL THEN EmptyString ELSE e.row[c]]

\* the assignee checkboxes ticked on saving when the modal opened with the
\* boxes of before ticked and the user toggled the box of v (of nobody: 0)
Ticked(before, v) ==
  IF v = 0 THEN before ELSE (before \ {v}) \cup ({v} \ before)

\* TaskModal.handleSubmit, edit branch, up to the UPDATE of the task
handleSubmitEdit(u, taskId, edit, toggled) ==
  LET e == list[u][taskId]
      ticked == Ticked(e.assignees, toggled)
      formData == Merge(FormOf(e), edit)
      canUpdate == isAdmin(u) \/ u \in e.assignees
      updateData == IF isAdmin(u) THEN formData ELSE [status |-> formData.status]
      res == UpdateTask(u, taskId, updateData) IN
  /\ Tick
  /\ SignedIn(u)
  /\ modal[u].pc = "idle"
  /\ taskId \in DOMAIN list[u]
  /\ ~e.nulls
  /\ canUpdate
  /\ toggled # 0 => isAdmin(u)
  /\ tasks' = res.tasks
  /\ UNCHANGED <<profiles, task_assignees, auth, trash, team>>
  /\ last' = TaskReq("handleSubmit", u, taskId, updateData, res)
  /\ IF res.err # ""
     THEN UNCHANGED <<modal, list>>
     ELSE IF isAdmin(u)
     THEN /\ modal' = [modal EXCEPT ![u] =
                         [pc |-> "delete_assignees", task |-> taskId, users |-> ticked]]
          /\ UNCHANGED list
     ELSE onClose(u)

\* handleSubmit, edit branch: the DELETE of the task's assignee rows, whose
\* result is not looked at
handleSubmitDeleteAssignees(u) ==
  LET res == DeleteAssignees(u, modal[u].task) IN
  /\ Tick
  /\ modal[u].pc = "delete_assignees"
  /\ task_assignees' = res.task_assignees
  /\ UNCHANGED <<profiles, tasks, auth, trash, team>>
  /\ last' = Req("handleSubmit_delete_assignees", u, modal[u].task, <<>>, res)
  /\ IF modal[u].users # {}
     THEN /\ modal' = [modal EXCEPT ![u].pc = "insert_assignees"]
          /\ UNCHANGED list
     ELSE onClose(u)

\* handleSubmit, both branches: the INSERT of the ticked assignees
handleSubmitInsertAssignees(u) ==
  LET res == InsertAssignees(u, modal[u].task, modal[u].users) IN
  /\ Tick
  /\ modal[u].pc = "insert_assignees"
  /\ task_assignees' = res.task_assignees
  /\ UNCHANGED <<profiles, tasks, auth, trash, team>>
  /\ last' = Req("handleSubmit_insert_assignees", u, modal[u].task,
                 [users |-> modal[u].users], res)
  /\ IF res.err # ""
     THEN /\ modal' = [modal EXCEPT ![u] = Idle]
          /\ UNCHANGED list
     ELSE onClose(u)

\* handleSubmit, create branch, up to the INSERT of the task
handleSubmitCreate(u, edit, toggled) ==
  LET formData == Merge(NewForm, edit)
      ticked == Ticked({}, toggled)
      id == NewId
      res == InsertTask(u, id, NewTaskRow(formData @@ [created_by |-> u])) IN
  /\ Tick
  /\ SignedIn(u)
  /\ modal[u].pc = "idle"
  /\ isAdmin(u)
  /\ DOMAIN tasks # TaskIds
  /\ tasks' = res.tasks
  /\ UNCHANGED <<profiles, task_assignees, auth, trash, team>>
  /\ last' = Req("handleSubmit_create", u, id, formData, res)
  /\ IF res.err # ""
     THEN UNCHANGED <<modal, list>>
     ELSE IF ticked # {}
     THEN /\ modal' = [modal EXCEPT ![u] =
                         [pc |-> "insert_assignees", task |-> id, users |-> ticked]]
          /\ UNCHANGED list
     ELSE onClose(u)

\* TaskModal.handleDelete: the modal's task is moved to the trash
handleDelete(u, taskId) ==
  LET res == UpdateTask(u, taskId, SoftDelete) IN
  /\ Tick
  /\ SignedIn(u)
  /\ modal[u].pc = "idle"
  /\ taskId \in DOMAIN list[u]
  /\ ~list[u][taskId].nulls
  /\ isAdmin(u)
  /\ tasks' = res.tasks
  /\ UNCHANGED <<profiles, task_assignees, auth, trash, team>>
  /\ last' = TaskReq("handleDelete", u, taskId, SoftDelete, res)
  /\ IF res.err # "" THEN UNCHANGED <<modal, list>> ELSE onClose(u)

\* Trash.loadDeletedTasks: the deleted tasks with the usernames of their
\* assignees; reading the username of a null profile throws, and the list
\* is then left as it was
LoadedTrash(u) ==
  IF \E t \in SelectTasks(u, "true") : Embedded(u, t).nulls
  THEN trash[u]
  ELSE SelectTasks(u, "true")

loadDeletedTasks(u) ==
  /\ Tick
  /\ SignedIn(u)
  /\ isAdmin(u)
  /\ trash[u] # LoadedTrash(u)
  /\ trash' = [trash EXCEPT ![u] = LoadedTrash(u)]
  /\ last' = Req("loadDeletedTasks", u, NoTask, <<>>,
                 [err |-> "", n |-> Cardinality(SelectTasks(u, "true"))])
  /\ UNCHANGED <<profiles, tasks, task_assignees, auth, list, modal, team>>

\* Trash.handleRestore
handleRestore(u, taskId) ==
  LET res == UpdateTask(u, taskId, Restore) IN
  /\ Tick
  /\ SignedIn(u)
  /\ isAdmin(u)
  /\ taskId \in trash[u]
  /\ tasks' = res.tasks
  /\ UNCHANGED <<profiles, task_assignees, auth, list, modal, team>>
  /\ trash' = IF res.err = "" THEN [trash EXCEPT ![u] = LoadedTrash(u)'] ELSE trash
  /\ last' = TaskReq("handleRestore", u, taskId, Restore, res)

\* Trash.handlePermanentDelete
handlePermanentDelete(u, taskId) ==
  LET res == DeleteTask(u, taskId) IN
  /\ Tick
  /\ SignedIn(u)
  /\ isAdmin(u)
  /\ taskId \in trash[u]
  /\ tasks' = res.tasks
  /\ task_assignees' = res.task_assignees
  /\ UNCHANGED <<profiles, auth, list, modal, team>>
  /\ trash' = IF res.err = "" THEN [trash EXCEPT ![u] = LoadedTrash(u)'] ELSE trash
  /\ last' = TaskReq("handlePermanentDelete", u, taskId, <<>>, res)

\* Team.loadUsers: the profiles the SELECT policy shows
LoadedUsers(u) ==
  [p \in SelectProfiles(u) |-> profiles[p]]

loadUsers(u) ==
  /\ Tick
  /\ SignedIn(u)
  /\ isAdmin(u)
  /\ team[u] # LoadedUsers(u)
  /\ team' = [team EXCEPT ![u] = LoadedUsers(u)]
  /\ last' = Req("loadUsers", u, 0, <<>>,
                 [err |-> "", n |-> Cardinality(SelectProfiles(u))])
  /\ UNCHANGED <<profiles, tasks, task_assignees, auth, list, modal, trash>>

\* Team.handleToggleStatus: the button of a row of the list, disabled in
\* the user's own row
handleToggleStatus(u, userId) ==
  LET currentStatus == team[u][userId].status
      newStatus == IF currentStatus = "active" THEN "disabled" ELSE "active"
      res == UpdateProfile(u, userId, [status |-> newStatus]) IN
  /\ Tick
  /\ SignedIn(u)
  /\ isAdmin(u)
  /\ userId \in DOMAIN team[u]
  /\ userId # u
  /\ profiles' = res.profiles
  /\ UNCHANGED <<tasks, task_assignees, auth, list, modal, trash>>
  /\ team' = IF res.err = "" THEN [team EXCEPT ![u] = LoadedUsers(u)'] ELSE team
  /\ last' = Req("handleToggleStatus", u, userId, [status |-> newStatus], res)

\* Team.handleChangeRole: the select of a row of the list, disabled in the
\* user's own row
handleChangeRole(u, userId, newRole) ==
  LET res == UpdateProfile(u, userId, [role |-> newRole]) IN
  /\ Tick
  /\ SignedIn(u)
  /\ isAdmin(u)
  /\ userId \in DOMAIN team[u]
  /\ userId # u
  /\ newRole # team[u][userId].role
  /\ profiles' = res.profiles
  /\ UNCHANGED <<tasks, task_assignees, auth, list, modal, trash>>
  /\ team' = IF res.err = "" THEN [team EXCEPT ![u] = LoadedUsers(u)'] ELSE team
  /\ last' = Req("handleChangeRole", u, userId, [role |-> newRole], res)

(* ------------------------------ comments ------------------------------ *)
\* POST /task_comments
ApiInsertComment(uid, id, author) ==
  LET row == [task_id |-> id, user_id |-> author, content |-> "text"]
      res == InsertComment(uid, NewCommentId, row) IN
  /\ Request
  /\ DOMAIN task_comments # CommentIds
  /\ task_comments' = res.task_comments
  /\ last' = Req("insert_comment", uid, id, row, res)
  /\ UNCHANGED <<profiles, tasks, task_assignees, auth, list, modal, trash, team,
                 comments>>

\* PATCH /task_comments?id=eq.c
ApiUpdateComment(uid, c, patch) ==
  LET res == UpdateComment(uid, c, patch) IN
  /\ Request
  /\ task_comments' = res.task_comments
  /\ last' = Req("update_comment", uid, c, patch, res)
  /\ UNCHANGED <<profiles, tasks, task_assignees, auth, list, modal, trash, team,
                 comments>>

\* DELETE /task_comments?id=eq.c
ApiDeleteComment(uid, c) ==
  LET res == DeleteComment(uid, c) IN
  /\ Request
  /\ task_comments' = res.task_comments
  /\ last' = Req("delete_comment", uid, c, <<>>, res)
  /\ UNCHANGED <<profiles, tasks, task_assignees, auth, list, modal, trash, team,
                 comments>>

\* GET /task_comments?task_id=eq.id
ApiSelectComments(uid, id) ==
  /\ Request
  /\ last' = Req("select_comments", uid, id, [rows |-> SelectComments(uid, id)],
                 [err |-> "", n |-> Cardinality(SelectComments(uid, id))])
  /\ UNCHANGED <<profiles, tasks, task_assignees, auth, list, modal, trash, team,
                 task_comments, comments>>

\* TaskModal.loadComments: the comments of the task with profiles!inner,
\* which drops a comment whose author's profile the caller cannot see
LoadedComments(u, id) ==
  {c \in SelectComments(u, id) : task_comments[c].user_id \in SelectProfiles(u)}

\* the modal of a task of the list opens and loads the comments
loadComments(u, taskId) ==
  /\ Tick
  /\ SignedIn(u)
  /\ taskId \in DOMAIN list[u]
  /\ comments[u] # LoadedComments(u, taskId)
  /\ comments' = [comments EXCEPT ![u] = LoadedComments(u, taskId)]
  /\ last' = Req("loadComments", u, taskId, [rows |-> LoadedComments(u, taskId)],
                 [err |-> "", n |-> Cardinality(LoadedComments(u, taskId))])
  /\ UNCHANGED <<profiles, tasks, task_assignees, auth, list, modal, trash, team,
                 task_comments>>

\* TaskModal.handleAddComment in the modal of a task of the list
handleAddComment(u, taskId) ==
  LET row == [task_id |-> taskId, user_id |-> u, content |-> "text"]
      res == InsertComment(u, NewCommentId, row) IN
  /\ Tick
  /\ SignedIn(u)
  /\ taskId \in DOMAIN list[u]
  /\ DOMAIN task_comments # CommentIds
  /\ task_comments' = res.task_comments
  /\ UNCHANGED <<profiles, tasks, task_assignees, auth, list, modal, trash, team>>
  /\ comments' = IF res.err = ""
                 THEN [comments EXCEPT ![u] = LoadedComments(u, taskId)']
                 ELSE comments
  /\ last' = Req("handleAddComment", u, taskId, row, res)

(* ------------------------------ accounts ------------------------------ *)
\* the usernames a user types in the Profile page: some email address
Usernames ==
  {EmailOf(k) : k \in Users}

\* handle_new_user, AFTER INSERT ON auth.users, SECURITY DEFINER: the
\* profile row of the new account, in a transaction that started at t
handle_new_user(id, email, t) ==
  LET row == [username |-> IF email = NoEmail THEN Placeholder(id) ELSE email,
              role |-> "employee", status |-> "active",
              created_at |-> t, updated_at |-> t] IN
  IF id \in DOMAIN profiles \/ ProfileUniqueViolation(id, row)
  THEN [err |-> "23505", n |-> 0, profiles |-> profiles]
  ELSE [err |-> "", n |-> 1,
        profiles |-> [p \in DOMAIN profiles \cup {id} |->
                        IF p = id THEN row ELSE profiles[p]]]

\* an account is created: the INSERT INTO auth.users of an address no
\* account has, and its trigger; an error of the trigger aborts the INSERT
CreateUser(id, email) ==
  LET res == handle_new_user(id, email, clock) IN
  /\ Tick
  /\ id \notin DOMAIN accounts
  /\ email = NoEmail \/ \A a \in DOMAIN accounts : accounts[a] # email
  /\ profiles' = res.profiles
  /\ accounts' = IF res.err = ""
                 THEN [a \in DOMAIN accounts \cup {id} |->
                         IF a = id THEN email ELSE accounts[a]]
                 ELSE accounts
  /\ last' = Req("create_user", 0, id, [email |-> email], res)
  /\ UNCHANGED <<tasks, task_assignees, auth, list, modal, trash, team,
                 task_comments, comments, clock, txn, task_attachments, snapshot>>

(* ---------------------------- transactions ---------------------------- *)
\* a timestamp a request can put into a SET list or a row: later than every
\* time the clock reaches
Later == MaxClock + 7

\* the SET lists of the UPDATE requests of the timed requests
TimedTaskPatches ==
  {[status |-> "done"], [title |-> "B"], [updated_at |-> Later],
   [created_at |-> Later]}

TimedProfilePatches ==
  {[status |-> "disabled"], [updated_at |-> Later]}

\* time passes
Advance ==
  /\ Tick
  /\ clock < MaxClock
  /\ clock' = clock + 1
  /\ UNCHANGED <<profiles, tasks, task_assignees, auth, list, modal, trash,
                 team, last, task_comments, comments, accounts, txn, task_attachments, snapshot>>

\* the transaction of a request of uid starts: now() is the time of its start
\* for all of its statements and triggers
Begin(uid) ==
  /\ Tick
  /\ txn[uid] = NoTxn
  /\ txn' = [txn EXCEPT ![uid] = clock]
  /\ UNCHANGED <<profiles, tasks, task_assignees, auth, list, modal, trash,
                 team, last, task_comments, comments, accounts, clock, task_attachments, snapshot>>

\* the UPDATE of the started transaction of uid on a task runs and commits
RunUpdateTask(uid, id, patch) ==
  LET res == UpdateTaskAt(uid, id, patch, txn[uid]) IN
  /\ Tick
  /\ txn[uid] # NoTxn
  /\ tasks' = res.tasks
  /\ txn' = [txn EXCEPT ![uid] = NoTxn]
  /\ last' = TaskReq("run_update_task", uid, id,
                     [set |-> patch, now |-> txn[uid]], res)
  /\ UNCHANGED <<profiles, task_assignees, auth, list, modal, trash, team,
                 task_comments, comments, accounts, clock, task_attachments, snapshot>>

\* the UPDATE of the started transaction of uid on a profile runs and commits
RunUpdateProfile(uid, id, patch) ==
  LET res == UpdateProfileAt(uid, id, patch, txn[uid]) IN
  /\ Tick
  /\ txn[uid] # NoTxn
  /\ profiles' = res.profiles
  /\ txn' = [txn EXCEPT ![uid] = NoTxn]
  /\ last' = Req("run_update_profile", uid, id,
                 [set |-> patch, now |-> txn[uid]], res)
  /\ UNCHANGED <<tasks, task_assignees, auth, list, modal, trash, team,
                 task_comments, comments, accounts, clock, task_attachments, snapshot>>

\* the INSERT of the started transaction of uid into tasks runs and commits
RunInsertTask(uid, cols) ==
  LET id == NewId
      res == InsertTask(uid, id, NewTaskRowAt(cols, txn[uid])) IN
  /\ Tick
  /\ txn[uid] # NoTxn
  /\ DOMAIN tasks # TaskIds
  /\ tasks' = res.tasks
  /\ txn' = [txn EXCEPT ![uid] = NoTxn]
  /\ last' = Req("run_insert_task", uid, id,
                 [set |-> cols, now |-> txn[uid]], res)
  /\ UNCHANGED <<profiles, task_assignees, auth, list, modal, trash, team,
                 task_comments, comments, accounts, clock, task_attachments, snapshot>>

(* ----------------------- attachments and purge ------------------------ *)
\* POST /task_attachments
ApiInsertAttachment(uid, id) ==
  LET row == [task_id |-> id, uploaded_by |-> uid, file_name |-> "f"]
      res == InsertAttachment(uid, NewAttachmentId, row) IN
  /\ Request
  /\ DOMAIN task_attachments # AttachmentIds
  /\ task_attachments' = res.task_attachments
  /\ last' = Req("insert_attachment", uid, id, row, res)
  /\ UNCHANGED <<profiles, tasks, task_assignees, auth, list, modal, trash, team,
                 task_comments, comments, accounts, clock, txn,
                 snapshot>>

\* DELETE /task_attachments?id=eq.a
ApiDeleteAttachment(uid, a) ==
  LET res == DeleteAttachment(uid, a) IN
  /\ Request
  /\ task_attachments' = res.task_attachments
  /\ last' = Req("delete_attachment", uid, a, <<>>, res)
  /\ UNCHANGED <<profiles, tasks, task_assignees, auth, list, modal, trash, team,
                 task_comments, comments, accounts, clock, txn,
                 snapshot>>

\* DELETE FROM tasks WHERE id = id by a role that row level security does
\* not apply to (the owner of the tables): the row goes, and with it the
\* rows of the three tables that reference it
SqlDeleteTask(id) ==
  /\ Request
  /\ id \in DOMAIN tasks
  /\ tasks' = [t \in DOMAIN tasks \ {id} |-> tasks[t]]
  /\ task_assignees' = AssigneesOnDeleteCascade(id)
  /\ task_comments' = CommentsOnDeleteCascade(id)
  /\ task_attachments' = AttachmentsOnDeleteCascade(id)
  /\ last' = Req("sql_delete_task", 0, id,
                 [assignees |-> AssigneesOf(id),
                  comments |-> {c \in DOMAIN task_comments :
                                  task_comments[c].task_id = id},
                  attachments |-> {a \in DOMAIN task_attachments :
                                     task_attachments[a].task_id = id}],
                 [err |-> "", n |-> 1])
  /\ UNCHANGED <<profiles, auth, list, modal, trash, team, comments, accounts,
                 clock, txn, snapshot>>

(* ------------------------ overlapping requests ------------------------ *)
\* Team.handleChangeRole up to the moment its UPDATE takes its snapshot
handleChangeRoleSends(u, userId, newRole) ==
  /\ Tick
  /\ SignedIn(u)
  /\ isAdmin(u)
  /\ userId \in DOMAIN team[u]
  /\ userId # u
  /\ newRole # team[u][userId].role
  /\ snapshot[u].op = "none"
  /\ snapshot' = [snapshot EXCEPT ![u] =
                    [op |-> "handleChangeRole", id |-> userId,
                     patch |-> [role |-> newRole], seen |-> profiles]]
  /\ UNCHANGED <<profiles, tasks, task_assignees, auth, list, modal, trash, team,
                 last, task_comments, comments, accounts, clock, txn,
                 task_attachments>>

\* Team.handleToggleStatus up to the moment its UPDATE takes its snapshot
handleToggleStatusSends(u, userId) ==
  LET currentStatus == team[u][userId].status
      newStatus == IF currentStatus = "active" THEN "disabled" ELSE "active" IN
  /\ Tick
  /\ SignedIn(u)
  /\ isAdmin(u)
  /\ userId \in DOMAIN team[u]
  /\ userId # u
  /\ snapshot[u].op = "none"
  /\ snapshot' = [snapshot EXCEPT ![u] =
                    [op |-> "handleToggleStatus", id |-> userId,
                     patch |-> [status |-> newStatus], seen |-> profiles]]
  /\ UNCHANGED <<profiles, tasks, task_assignees, auth, list, modal, trash, team,
                 last, task_comments, comments, accounts, clock, txn,
                 task_attachments>>

\* the UPDATE of the Team page of u writes and commits, and the handler
\* loads the list again unless it got an error
TeamUpdateRuns(u) ==
  LET w == snapshot[u]
      res == UpdateProfileSeeing(u, w.id, w.patch, w.seen, clock) IN
  /\ Tick
  /\ snapshot[u].op # "none"
  /\ profiles' = res.profiles
  /\ snapshot' = [snapshot EXCEPT ![u] = NoSnapshot]
  /\ team' = IF res.err = "" THEN [team EXCEPT ![u] = LoadedUsers(u)'] ELSE team
  /\ last' = Req(w.op, u, w.id, w.patch, res)
  /\ UNCHANGED <<tasks, task_assignees, auth, list, modal, trash, task_comments,
                 comments, accounts, clock, txn, task_attachments>>

(* ------------------------------ dashboard ----------------------------- *)
\* the dates of the due dates and of today, as YYYY-MM-DD strings
Dates == {"2025-12-31", "2026-01-01", "2026-01-02"}

\* a < b on YYYY-MM-DD strings, which JavaScript compares character by
\* character
DateBefore(a, b) ==
  \/ a = "2025-12-31" /\ b \in {"2026-01-01", "2026-01-02"}
  \/ a = "2026-01-01" /\ b = "2026-01-02"

\* slip: the query of the statistics has no is_deleted filter
DashboardTasks_Unfiltered(u) ==
  SelectTasks(u, "all")

\* supabase.from('tasks').select('*').eq('is_deleted', false) of u
DashboardTasks(u) ==
  SelectTasks(u, "false")

\* the tasks each filter of loadDashboardData keeps
OverdueTasks(u, today) ==
  {t \in DashboardTasks(u) :
     /\ tasks[t].due_date # NULL
     /\ DateBefore(tasks[t].due_date, today)
     /\ tasks[t].status # "done"}

DueTodayTasks(u, today) ==
  {t \in DashboardTasks(u) : tasks[t].due_date = today /\ tasks[t].status # "done"}

CompletedTasks(u) ==
  {t \in DashboardTasks(u) : tasks[t].status = "done"}

PriorityTasks(u, p) ==
  {t \in DashboardTasks(u) : tasks[t].priority = p /\ tasks[t].status # "done"}

\* the TaskStats loadDashboardData passes to setStats
Stats(u, today) ==
  [overdue |-> Cardinality(OverdueTasks(u, today)),
   dueToday |-> Cardinality(DueTodayTasks(u, today)),
   completed |-> Cardinality(CompletedTasks(u)),
   byPriority |-> [p \in Priorities |-> Cardinality(PriorityTasks(u, p))]]

\* Dashboard.loadDashboardData on a day today
loadDashboardData(u, today) ==
  /\ Tick
  /\ SignedIn(u)
  /\ last' = Req("loadDashboardData", u, NoTask,
                 [today |-> today, stats |-> Stats(u, today)],
                 [err |-> "", n |-> Cardinality(DashboardTasks(u))])
  /\ UNCHANGED <<profiles, tasks, task_assignees, auth, list, modal, trash, team>>

\* the columns of the tasks created and the SET lists of the updates while
\* the dashboard is looked at
DashboardInserts ==
  {[title |-> "A", created_by |-> 1, priority |-> p, status |-> s, due_date |-> d] :
     p \in {"low", "high"}, s \in {"to_do", "done"}, d \in {NULL, "2025-12-31"}}

DashboardPatches ==
  {SoftDelete, [status |-> "done"], [due_date |-> "2026-01-02"]}

(* ------------------------------- filters ------------------------------ *)
\* the values of the three filter selects of the Tasks page; the empty
\* string is the option "All ..."
Tags == {"urgent"}

\* value="" of the option "All Assignees" (the ids of the users are numbers)
AllAssignees == 0

Filters ==
  [assignee : {AllAssignees} \cup Users,
   category : {EmptyString} \cup Categories,
   tag : {EmptyString} \cup Tags]

\* task.assignees.some((a) => a.id === assignee) on a list entry: the array
\* holds a null for every profile the SELECT policy hides, in the order the
\* rows came in, and reading the id of a null throws unless a match came
\* first (nullFirst: the null precedes the match)
SomeAssignee(e, assignee, nullFirst) ==
  [threw |-> e.nulls /\ (assignee \notin e.assignees \/ nullFirst),
   found |-> assignee \in e.assignees]

\* the three passes of applyFilters over the loaded tasks
AssigneeFilter(u, shown, filters) ==
  IF filters.assignee # AllAssignees
  THEN {t \in shown : SomeAssignee(list[u][t], filters.assignee, FALSE).found}
  ELSE shown

CategoryFilter(u, shown, filters) ==
  IF filters.category # EmptyString
  THEN {t \in shown : list[u][t].row.category = filters.category}
  ELSE shown

TagFilter(u, shown, filters) ==
  IF filters.tag # EmptyString
  THEN {t \in shown : filters.tag \in list[u][t].row.tags}
  ELSE shown

\* the outcome of applyFilters: the tasks it passes to setFilteredTasks,
\* or the TypeError of the first pass, which leaves the page without a list
FilteredTasks(u, filters, nullFirst) ==
  IF /\ filters.assignee # AllAssignees
     /\ \E t \in DOMAIN list[u] :
          SomeAssignee(list[u][t], filters.assignee, nullFirst).threw
  THEN [threw |-> TRUE, filtered |-> {}]
  ELSE [threw |-> FALSE,
        filtered |->
          TagFilter(u, CategoryFilter(u, AssigneeFilter(u, DOMAIN list[u], filters),
                                        filters), filters)]

\* the cards of the kanban column of a status
Column(u, filtered, status) ==
  {t \in filtered : list[u][t].row.status = status}

KanbanColumns == <<"to_do", "in_progress", "done">>

\* Tasks.applyFilters, run by the effect on [tasks, filters], and the
\* counts of the three columns rendered from its result
applyFilters(u, filters, nullFirst) ==
  LET res == FilteredTasks(u, filters, nullFirst) IN
  /\ Tick
  /\ SignedIn(u)
  /\ modal[u].pc = "idle"
  /\ last' = Req("applyFilters", u, NoTask,
                 [filters |-> filters,
                  threw |-> res.threw,
                  filtered |-> res.filtered,
                  counts |-> [i \in 1..3 |->
                                Cardinality(Column(u, res.filtered, KanbanColumns[i]))]],
                 [err |-> "", n |-> Cardinality(res.filtered)])
  /\ UNCHANGED <<profiles, tasks, task_assignees, auth, list, modal, trash, team>>

\* the columns of the tasks created while the page is filtered
FilterInserts ==
  {[title |-> "A", created_by |-> 1, category |-> c, tags |-> g, status |-> s] :
     c \in Categories, g \in SUBSET Tags, s \in {"to_do", "done"}}

(* -------------------------------- Init -------------------------------- *)
\* A team of admins and employees, all signed in, and either no task yet,
\* or one task the first admin created for the last user, active or in the
\* trash.  The pages are mounted and have run the load of their useEffect.
SeedTask(deleted) ==
  Merge(NewTaskRow(Merge(NewForm, [due_date |-> SomeDate]) @@ [created_by |-> 1]),
        IF deleted THEN [is_deleted |-> TRUE, deleted_at |-> Now]
        ELSE [is_deleted |-> FALSE])

InitTeam(admins) ==
  /\ clock = 0
  /\ accounts = [u \in Users |-> EmailOf(u)]
  /\ txn = [u \in Users |-> NoTxn]
  /\ snapshot = [u \in Users |-> NoSnapshot]
  /\ profiles = [u \in Users |->
                   [username |-> EmailOf(u),
                    role |-> IF u \in admins THEN "admin" ELSE "employee",
                    status |-> "active", created_at |-> 0, updated_at |-> 0]]
  /\ \/ /\ tasks = <<>>
        /\ task_assignees = EmptyBag
     \/ /\ \E d \in BOOLEAN : tasks = [t \in {1} |-> SeedTask(d)]
        /\ task_assignees = SetToBag({[task_id |-> 1, user_id |-> MaxUsers]})
  /\ auth = profiles
  /\ list = [u \in Users |-> LoadedTasks(u)]
  /\ modal = [u \in Users |-> Idle]
  /\ trash = [u \in Users |-> IF isAdmin(u) THEN SelectTasks(u, "true") ELSE {}]
  /\ team = [u \in Users |-> IF isAdmin(u) THEN LoadedUsers(u) ELSE <<>>]
  /\ last = [op |-> "none", by |-> 0, admin |-> FALSE, id |-> NoTask,
             arg |-> <<>>, err |-> "", n |-> 0, was |-> ""]
  /\ steps = 0
  /\ comments = [u \in Users |-> {}]

\* nobody has commented or attached a file yet
InitWith(admins) ==
  /\ InitTeam(admins)
  /\ task_comments = <<>>
  /\ task_attachments = <<>>

\* one admin
Init == InitWith({1})

\* one admin; the assignee of the seeded task may have commented on it
\* while it was active
InitComments ==
  /\ InitTeam({1})
  /\ task_attachments = <<>>
  /\ \/ task_comments = <<>>
     \/ /\ 1 \in DOMAIN tasks
        /\ task_comments =
             [c \in {1} |-> [task_id |-> 1, user_id |-> MaxUsers, content |-> "text"]]

\* one admin; the assignee of the seeded task has commented on it and
\* attached a file to it while it was active
InitPurge ==
  /\ InitTeam({1})
  /\ \/ task_comments = <<>> /\ task_attachments = <<>>
     \/ /\ 1 \in DOMAIN tasks
        /\ task_comments =
             [c \in {1} |-> [task_id |-> 1, user_id |-> MaxUsers, content |-> "text"]]
        /\ task_attachments =
             [a \in {1} |-> [task_id |-> 1, uploaded_by |-> MaxUsers, file_name |-> "f"]]

\* two admins
InitAdmins == InitWith({1, 2})

\* the first admin alone: the other accounts are still to be created
InitSignup ==
  /\ clock = 0
  /\ accounts = [u \in {1} |-> EmailOf(u)]
  /\ txn = [u \in Users |-> NoTxn]
  /\ snapshot = [u \in Users |-> NoSnapshot]
  /\ profiles = [u \in {1} |->
                   [username |-> EmailOf(u), role |-> "admin",
                    status |-> "active", created_at |-> 0, updated_at |-> 0]]
  /\ tasks = <<>>
  /\ task_assignees = EmptyBag
  /\ auth = profiles
  /\ list = [u \in Users |-> <<>>]
  /\ modal = [u \in Users |-> Idle]
  /\ trash = [u \in Users |-> {}]
  /\ team = [u \in Users |-> <<>>]
  /\ last = [op |-> "none", by |-> 0, admin |-> FALSE, id |-> NoTask,
             arg |-> <<>>, err |-> "", n |-> 0, was |-> ""]
  /\ steps = 0
  /\ task_comments = <<>>
  /\ comments = [u \in Users |-> {}]
  /\ task_attachments = <<>>

(* -------------------------------- Next -------------------------------- *)
\* the application: the clients of the users against the database, for
\* behaviours of at most max steps
Client(max) ==
  \/ \E u \in Users : steps < max /\ UNCHANGED others /\ FetchProfile(u)
  \/ \E u \in Users : steps < max /\ UNCHANGED others /\ loadTasks(u)
  \/ \E u \in Users, t \in TaskIds, s \in Statuses :
       steps < max /\ UNCHANGED others /\ handleDrop(u, t, s)
  \/ \E u \in Users, t \in TaskIds, e \in FormEdits, v \in Users \cup {0} :
       /\ steps < max /\ UNCHANGED others
       /\ (e = NoEdit \/ v = 0) /\ handleSubmitEdit(u, t, e, v)
  \/ \E u \in Users : steps < max /\ UNCHANGED others /\ handleSubmitDeleteAssignees(u)
  \/ \E u \in Users : steps < max /\ UNCHANGED others /\ handleSubmitInsertAssignees(u)
  \/ \E u \in Users, e \in CreateEdits, v \in Users \cup {0} :
       steps < max /\ UNCHANGED others /\ handleSubmitCreate(u, e, v)
  \/ \E u \in Users, t \in TaskIds : steps < max /\ UNCHANGED others /\ handleDelete(u, t)
  \/ \E u \in Users : steps < max /\ UNCHANGED others /\ loadDeletedTasks(u)
  \/ \E u \in Users, t \in TaskIds : steps < max /\ UNCHANGED others /\ handleRestore(u, t)
  \/ \E u \in Users, t \in TaskIds :
       steps < max /\ UNCHANGED others /\ handlePermanentDelete(u, t)
  \/ \E u \in Users : steps < max /\ UNCHANGED others /\ loadUsers(u)
  \/ \E u \in Users, p \in Users : steps < max /\ UNCHANGED others /\ handleToggleStatus(u, p)
  \/ \E u \in Users, p \in Users, r \in Roles :
       steps < max /\ UNCHANGED others /\ handleChangeRole(u, p, r)

\* one admin and the employees
Next == Client(MaxSteps)

Spec == Init /\ [][Next]_vars

\* two admins and the employees
NextAdmins == Client(MaxAdminSteps)

SpecAdmins == InitAdmins /\ [][NextAdmins]_vars

\* any authenticated caller of the REST interface against the database
NextApi ==
  \/ \E u \in Users, t \in TaskIds, p \in TaskPatches :
       steps < MaxRequests /\ UNCHANGED others /\ ApiUpdateTask(u, t, p)
  \/ \E u \in Users, d \in {EmptyString, SomeDate} :
       /\ steps < MaxRequests /\ UNCHANGED others
       /\ ApiInsertTask(u, [title |-> "A", due_date |-> d, created_by |-> u])
  \/ \E u \in Users, t \in TaskIds :
       steps < MaxRequests /\ UNCHANGED others /\ ApiDeleteTask(u, t)
  \/ \E u \in Users, f \in {"all", "false", "true"} :
       steps < MaxRequests /\ UNCHANGED others /\ ApiSelectTasks(u, f)
  \/ \E u \in Users, t \in TaskIds, v \in Users :
       steps < MaxRequests /\ UNCHANGED others /\ ApiInsertAssignees(u, t, {v})
  \/ \E u \in Users, t \in TaskIds :
       steps < MaxRequests /\ UNCHANGED others /\ ApiDeleteAssignees(u, t)
  \/ \E u \in Users, p \in Users, c \in ProfilePatches :
       steps < MaxRequests /\ UNCHANGED others /\ ApiUpdateProfile(u, p, c)

SpecApi == Init /\ [][NextApi]_vars

\* the saves of the modal of a task, interleaved request by request, with
\* some assignee box toggled or none
NextSave ==
  \/ \E u \in Users, t \in TaskIds, v \in Users \cup {0} :
       steps < MaxSaveSteps /\ UNCHANGED others /\ handleSubmitEdit(u, t, NoEdit, v)
  \/ \E u \in Users :
       steps < MaxSaveSteps /\ UNCHANGED others /\ handleSubmitDeleteAssignees(u)
  \/ \E u \in Users :
       steps < MaxSaveSteps /\ UNCHANGED others /\ handleSubmitInsertAssignees(u)

SpecSave == InitAdmins /\ [][NextSave]_vars

\* the comments of the tasks: the REST interface and the modal, while
\* tasks are moved to the trash and back and profiles are disabled
NextComments ==
  \/ \E u \in Users, t \in TaskIds : \E a \in CommentAuthors(u) :
       steps < MaxCommentSteps /\ UNCHANGED platform /\ ApiInsertComment(u, t, a)
  \/ \E u \in Users, c \in CommentIds, p \in CommentPatches :
       steps < MaxCommentSteps /\ UNCHANGED platform /\ ApiUpdateComment(u, c, p)
  \/ \E u \in Users, c \in CommentIds :
       steps < MaxCommentSteps /\ UNCHANGED platform /\ ApiDeleteComment(u, c)
  \/ \E u \in Users, t \in TaskIds :
       steps < MaxCommentSteps /\ UNCHANGED platform /\ ApiSelectComments(u, t)
  \/ \E u \in Users, t \in TaskIds :
       steps < MaxCommentSteps /\ UNCHANGED platform /\ loadComments(u, t)
  \/ \E u \in Users, t \in TaskIds :
       steps < MaxCommentSteps /\ UNCHANGED platform /\ handleAddComment(u, t)
  \/ \E u \in Users, t \in TaskIds, p \in {SoftDelete, Restore} :
       steps < MaxCommentSteps /\ UNCHANGED others /\ ApiUpdateTask(u, t, p)
  \/ \E u \in Users, p \in Users, s \in ProfileStatuses :
       steps < MaxCommentSteps /\ UNCHANGED others
         /\ ApiUpdateProfile(u, p, [status |-> s])

SpecComments == InitComments /\ [][NextComments]_vars

\* accounts are created while the users that exist change their usernames
NextSignup ==
  \/ \E id \in Users, e \in Usernames \cup {NoEmail} :
       steps < MaxSignupSteps /\ CreateUser(id, e)
  \/ \E u \in Users, n \in Usernames :
       steps < MaxSignupSteps /\ UNCHANGED others
         /\ ApiUpdateProfile(u, u, [username |-> n])

SpecSignup == InitSignup /\ [][NextSignup]_vars

\* requests as transactions that start at one time and write at another
NextClock ==
  \/ steps < MaxClockSteps /\ Advance
  \/ \E u \in Users :
       steps < MaxClockSteps /\ Begin(u)
  \/ \E u \in Users, t \in TaskIds, p \in TimedTaskPatches :
       steps < MaxClockSteps /\ RunUpdateTask(u, t, p)
  \/ \E u \in Users, q \in Users, p \in TimedProfilePatches :
       steps < MaxClockSteps /\ RunUpdateProfile(u, q, p)
  \/ \E u \in Users :
       steps < MaxClockSteps /\ RunInsertTask(u, [title |-> "A", created_by |-> u])

SpecClock == Init /\ [][NextClock]_vars

\* rows that reference tasks are inserted and removed while tasks are
\* deleted, by the clients (denied) and by the owner of the tables
NextPurge ==
  \/ \E u \in Users, t \in TaskIds :
       steps < MaxPurgeSteps /\ UNCHANGED platform /\ ApiInsertComment(u, t, u)
  \/ \E u \in Users, t \in TaskIds :
       steps < MaxPurgeSteps /\ ApiInsertAttachment(u, t)
  \/ \E u \in Users, a \in AttachmentIds :
       steps < MaxPurgeSteps /\ ApiDeleteAttachment(u, a)
  \/ \E u \in Users, t \in TaskIds, v \in Users :
       steps < MaxPurgeSteps /\ UNCHANGED others /\ ApiInsertAssignees(u, t, {v})
  \/ \E u \in Users, t \in TaskIds :
       steps < MaxPurgeSteps /\ UNCHANGED others /\ ApiDeleteTask(u, t)
  \/ \E t \in TaskIds :
       steps < MaxPurgeSteps /\ SqlDeleteTask(t)

SpecPurge == InitPurge /\ [][NextPurge]_vars

\* tasks with comments go to the trash and come back
NextTrash ==
  \/ \E u \in Users, t \in TaskIds :
       steps < MaxTrashSteps /\ UNCHANGED others /\ handleDelete(u, t)
  \/ \E u \in Users :
       steps < MaxTrashSteps /\ UNCHANGED others /\ loadDeletedTasks(u)
  \/ \E u \in Users, t \in TaskIds :
       steps < MaxTrashSteps /\ UNCHANGED others /\ handleRestore(u, t)
  \/ \E u \in Users, t \in TaskIds :
       steps < MaxTrashSteps /\ UNCHANGED platform /\ ApiSelectComments(u, t)
  \/ \E u \in Users, t \in TaskIds :
       steps < MaxTrashSteps /\ UNCHANGED platform /\ ApiInsertComment(u, t, u)

SpecTrash == InitComments /\ [][NextTrash]_vars

\* two admins: one creates tasks with assignees while the other changes
\* roles on the Team page
NextCreate ==
  \/ \E u \in Users, e \in CreateEdits, v \in Users :
       steps < MaxCreateSteps /\ UNCHANGED others /\ handleSubmitCreate(u, e, v)
  \/ \E u \in Users :
       steps < MaxCreateSteps /\ UNCHANGED others /\ handleSubmitInsertAssignees(u)
  \/ \E u \in Users, p \in Users, r \in Roles :
       steps < MaxCreateSteps /\ UNCHANGED others /\ handleChangeRole(u, p, r)

SpecCreate == InitAdmins /\ [][NextCreate]_vars

\* the Team pages of two admins, whose requests may overlap
NextRoles ==
  \/ \E u \in Users, p \in Users, r \in Roles :
       steps < MaxRoleSteps /\ handleChangeRoleSends(u, p, r)
  \/ \E u \in Users, p \in Users :
       steps < MaxRoleSteps /\ handleToggleStatusSends(u, p)
  \/ \E u \in Users :
       steps < MaxRoleSteps /\ TeamUpdateRuns(u)

SpecRoles == InitAdmins /\ [][NextRoles]_vars

\* an admin moves tasks to the trash while the pages and modals of the
\* others still show them, and while others call the REST interface
NextStale ==
  \/ \E u \in Users, t \in TaskIds :
       steps < MaxStaleSteps /\ UNCHANGED others /\ handleDelete(u, t)
  \/ \E u \in Users, t \in TaskIds, s \in Statuses :
       steps < MaxStaleSteps /\ UNCHANGED others /\ handleDrop(u, t, s)
  \/ \E u \in Users, t \in TaskIds, s \in Statuses :
       /\ steps < MaxStaleSteps /\ UNCHANGED others
       /\ handleSubmitEdit(u, t, [status |-> s], 0)
  \/ \E u \in Users, t \in TaskIds :
       steps < MaxStaleSteps /\ UNCHANGED platform /\ handleAddComment(u, t)
  \/ \E u \in Users, t \in TaskIds, p \in TaskPatches :
       steps < MaxStaleSteps /\ UNCHANGED others /\ ApiUpdateTask(u, t, p)
  \/ \E u \in Users, t \in TaskIds :
       steps < MaxStaleSteps /\ UNCHANGED platform /\ ApiInsertComment(u, t, u)

SpecStale == InitComments /\ [][NextStale]_vars

\* the dashboards of the users while tasks are created and changed
NextDashboard ==
  \/ \E u \in Users, d \in Dates :
       steps < MaxDashboardSteps /\ UNCHANGED others /\ loadDashboardData(u, d)
  \/ \E c \in DashboardInserts :
       steps < MaxDashboardSteps /\ UNCHANGED others /\ ApiInsertTask(1, c)
  \/ \E u \in {1, MaxUsers}, t \in TaskIds, p \in DashboardPatches :
       steps < MaxDashboardSteps /\ UNCHANGED others /\ ApiUpdateTask(u, t, p)

SpecDashboard == Init /\ [][NextDashboard]_vars

\* the Tasks page with its filters while tasks are created and a user
\* disables its own profile
NextFilters ==
  \/ \E u \in Users, f \in Filters, nullFirst \in BOOLEAN :
       steps < MaxFilterSteps /\ UNCHANGED others /\ applyFilters(u, f, nullFirst)
  \/ \E u \in Users :
       steps < MaxFilterSteps /\ UNCHANGED others /\ loadTasks(u)
  \/ \E c \in FilterInserts :
       steps < MaxFilterSteps /\ UNCHANGED others /\ ApiInsertTask(1, c)
  \/ \E u \in Users :
       steps < MaxFilterSteps /\ UNCHANGED others
         /\ ApiUpdateProfile(u, u, [status |-> "disabled"])

SpecFilters == Init /\ [][NextFilters]_vars

C2_OnlyAdminChangesDeletion ==
  [][\A t \in DOMAIN tasks \cap DOMAIN tasks' :
       (tasks'[t].is_deleted # tasks[t].is_deleted
          \/ tasks'[t].deleted_at # tasks[t].deleted_at)
       => IsAdmin(last'.by)]_vars

\* C3: an admin's soft-delete of an active task leaves it with is_deleted
\* true and deleted_at non-null, and an admin's restore of a trashed task
\* leaves it with is_deleted false and deleted_at null (checked under Spec).
C3_SoftDeleteAndRestore ==
  [][/\ (/\ last'.op = "handleDelete"
         /\ IsAdmin(last'.by)
         /\ last'.id \in DOMAIN tasks
         /\ tasks[last'.id].is_deleted = FALSE)
        => /\ tasks'[last'.id].is_deleted = TRUE
           /\ tasks'[last'.id].deleted_at # NULL
     /\ (/\ last'.op = "handleRestore"
         /\ IsAdmin(last'.by)
         /\ last'.id \in DOMAIN tasks
         /\ tasks[last'.id].is_deleted = TRUE)
        => /\ tasks'[last'.id].is_deleted = FALSE
           /\ tasks'[last'.id].deleted_at = NULL]_vars

\* an admin restored a task from the trash
C3_Witness ==
  /\ last.op = "handleRestore"
  /\ last.admin
  /\ last.n = 1
  /\ tasks[last.id].is_deleted = FALSE
  /\ tasks[last.id].deleted_at = NULL

\* an admin moved an active task to the trash
C3_WitnessDelete ==
  /\ last.op = "handleDelete"
  /\ last.admin
  /\ last.n = 1
  /\ tasks[last.id].is_deleted = TRUE
  /\ tasks[last.id].deleted_at # NULL

\* C4: a permanent delete of a trashed task by an admin removes the task
\* row, and a permanent delete by a non-admin removes nothing (checked
\* under Spec).
C4_AdminPurges ==
  [][last'.op = "handlePermanentDelete" /\ last'.id \in DOMAIN tasks
       => IF IsAdmin(last'.by)
          THEN tasks[last'.id].is_deleted = TRUE => last'.id \notin DOMAIN tasks'
          ELSE tasks' = tasks]_vars

C6_OnlyAdminChangesRoleOrStatus ==
  [][\A p \in DOMAIN profiles :
       (profiles'[p].role # profiles[p].role
          \/ profiles'[p].status # profiles[p].status)
       => IsAdmin(last'.by)]_vars

\* C7: a status update issued from the modal or by drag and drop by an
\* employee who is not in the task's assignee set affects no row and leaves
\* the tasks and the assignments as they were (checked under Spec).
C7_UnassignedEmployeeRejected ==
  [][(/\ last'.op \in {"handleSubmit", "handleDrop"}
      /\ ~IsAdmin(last'.by)
      /\ last'.by \notin AssigneesOf(last'.id))
     => /\ last'.n = 0
        /\ tasks' = tasks
        /\ task_assignees' = task_assignees]_vars

\* an employee outside the assignee set dropped a card of an existing task
\* on another column
C7_Witness ==
  /\ last.op = "handleDrop"
  /\ ~last.admin
  /\ last.id \in DOMAIN tasks
  /\ last.by \notin AssigneesOf(last.id)
  /\ last.arg.status # tasks[last.id].status
  /\ last.n = 0

\* C8: an update by an employee who is in the task's assignee set changes
\* nothing but the status (checked under SpecApi).
C8_AssigneeChangesStatusOnly ==
  [][(/\ last'.op = "update_task"
      /\ ~IsAdmin(last'.by)
      /\ last'.by \in AssigneesOf(last'.id)
      /\ last'.id \in DOMAIN tasks)
     => /\ \A c \in {"title", "description", "priority", "due_date",
                     "category", "tags"} :
             tasks'[last'.id][c] = tasks[last'.id][c]
        /\ task_assignees' = task_assignees]_vars

\* C9: for a non-deleted task and an employee in its assignee set, the
\* status update to every value of {to_do, in_progress, done} is allowed
\* and takes effect, from whatever status the task has (checked under Spec).
C9_AllTransitionsEnabled ==
  \A u \in Users : \A t \in DOMAIN tasks : \A s \in Statuses :
    (~IsAdmin(u) /\ u \in AssigneesOf(t) /\ tasks[t].is_deleted = FALSE)
    => /\ UpdateTask(u, t, [status |-> s]).err = ""
       /\ UpdateTask(u, t, [status |-> s]).n = 1
       /\ UpdateTask(u, t, [status |-> s]).tasks[t].status = s

\* an assigned employee moved a task from done back to to_do
C9_Witness ==
  /\ last.op = "handleDrop"
  /\ ~last.admin
  /\ last.n = 1
  /\ last.was = "done"
  /\ tasks[last.id].status = "to_do"

\* C10: every task row is inserted by a subject whose role is admin at the
\* time of the insert, and a create attempt by a non-admin adds no task row
\* and no assignment row (checked under SpecAdmins, where the client of a
\* demoted admin still offers the New Task button).
C10_OnlyAdminCreates ==
  [][/\ DOMAIN tasks' \ DOMAIN tasks # {} => IsAdmin(last'.by)
     /\ (/\ last'.op \in {"handleSubmit_create", "handleSubmit_insert_assignees"}
         /\ ~IsAdmin(last'.by))
        => /\ tasks' = tasks
           /\ task_assignees' = task_assignees]_vars

\* a demoted admin submitted the modal of a new task and was refused
C10_Witness ==
  /\ last.op = "handleSubmit_create"
  /\ ~last.admin
  /\ last.err = "42501"

C12_NoWriteOnTrashed ==
  [][\A c \in DOMAIN task_comments :
       (/\ task_comments[c].task_id \in DOMAIN tasks
        /\ tasks[task_comments[c].task_id].is_deleted = TRUE)
       => /\ c \in DOMAIN task_comments'
          /\ task_comments'[c] = task_comments[c]]_vars

\* the author tried to edit or remove the own comment of a task in the
\* trash and no row was affected
C12_Witness ==
  /\ last.op \in {"update_comment", "delete_comment"}
  /\ last.id \in DOMAIN task_comments
  /\ task_comments[last.id].user_id = last.by
  /\ tasks[task_comments[last.id].task_id].is_deleted = TRUE
  /\ last.n = 0

\* C13: the user_id of every comment row that is inserted is the identity
\* of the subject who inserted it (checked under SpecComments).
C13_AuthorIsInserter ==
  [][\A c \in DOMAIN task_comments' \ DOMAIN task_comments :
       task_comments'[c].user_id = last'.by]_vars

C15_OneRowPerPair ==
  \A r \in BagToSet(task_assignees) : CopiesIn(r, task_assignees) = 1

\* the second of two concurrent saves of the same task inserted a pair the
\* first had already inserted, and was refused
C15_Witness ==
  /\ last.op = "handleSubmit_insert_assignees"
  /\ last.admin
  /\ last.err = "23505"
  /\ \E r \in BagToSet(task_assignees) :
       r.task_id = last.id /\ r.user_id \in last.arg.users

\* C16: the creation of an account leaves the account with its profile
\* row, of role employee and status active, whatever profiles exist, one
\* with the address of the new account as username included (checked under
\* SpecSignup).
C16_SignupYieldsProfile ==
  [][last'.op = "create_user"
     => /\ last'.id \in DOMAIN accounts'
        /\ last'.id \in DOMAIN profiles'
        /\ profiles'[last'.id].role = "employee"
        /\ profiles'[last'.id].status = "active"]_vars

\* C17: a step that changes nothing but the status of the profile of a
\* subject leaves every decision of the policies of tasks, assignments,
\* comments and attachments for that subject as it was: the disabled subject
\* is allowed and denied what the active one is (checked under
\* SpecComments).
C17_StatusIndependent ==
  [][\A u \in DOMAIN profiles :
       (/\ profiles'[u].status # profiles[u].status
        /\ profiles'[u].role = profiles[u].role
        /\ tasks' = tasks
        /\ task_assignees' = task_assignees
        /\ task_comments' = task_comments)
       => Decisions(u)' = Decisions(u)]_vars

\* an employee disabled the own profile and is still allowed to update the
\* status of the task it is assigned to
C17_Witness ==
  /\ last.op = "update_profile"
  /\ last.n = 1
  /\ profiles[last.id].status = "disabled"
  /\ ~IsAdmin(last.id)
  /\ \E t \in DOMAIN tasks :
       /\ last.id \in AssigneesOf(t)
       /\ UpdateTask(last.id, t, [status |-> "done"]).n = 1

\* C18: a save of the modal by an admin whose form holds the status the task
\* had when the admin's list was loaded (the admin did not change the
\* status) leaves the status of the row as it is, and so keeps the status an
\* employee wrote in between (checked under Spec).
C18_SaveKeepsConcurrentStatus ==
  [][(/\ last'.op = "handleSubmit"
      /\ IsAdmin(last'.by)
      /\ last'.id \in DOMAIN list[last'.by]
      /\ last'.arg.status = list[last'.by][last'.id].row.status)
     => tasks'[last'.id].status = tasks[last'.id].status]_vars

\* C19: a task update from the modal or by drag and drop that the UPDATE
\* policy of tasks denies ends with an error, the outcome on which the client
\* keeps the modal open and alerts instead of closing and reloading, and
\* changes no row (checked under Spec).
C19_DenialIsFailure ==
  [][(/\ last'.op \in {"handleSubmit", "handleDrop"}
      /\ last'.id \in DOMAIN tasks
      /\ ~TasksUpdateUsing(last'.by, last'.id, tasks[last'.id]))
     => /\ last'.err # ""
        /\ tasks' = tasks
        /\ task_assignees' = task_assignees]_vars

\* C20 as stated: after every successful update of a task or profile row,
\* whichever columns the request set, updated_at of the row is now() of the
\* update, is not less than it was, and is not less than created_at of the
\* row (violated under SpecClock).
C20_UpdatedAtMonotone ==
  [][/\ (last'.op = "run_update_task" /\ last'.n = 1)
        => /\ tasks'[last'.id].updated_at = last'.arg.now
           /\ tasks'[last'.id].updated_at >= tasks[last'.id].updated_at
           /\ tasks'[last'.id].updated_at >= tasks'[last'.id].created_at
     /\ (last'.op = "run_update_profile" /\ last'.n = 1)
        => /\ profiles'[last'.id].updated_at = last'.arg.now
           /\ profiles'[last'.id].updated_at >= profiles[last'.id].updated_at
           /\ profiles'[last'.id].updated_at >= profiles'[last'.id].created_at]_vars

\* C20, amended: after every successful update of a task or profile row,
\* whichever columns the request set, updated_at included, updated_at of the
\* row is now() of the updating transaction, the time that transaction
\* started, which is not later than the time of the write (checked under
\* SpecClock).
C20_UpdatedAtIsTransactionStart ==
  [][/\ (last'.op = "run_update_task" /\ last'.n = 1)
        => /\ tasks'[last'.id].updated_at = last'.arg.now
           /\ tasks'[last'.id].updated_at <= clock
     /\ (last'.op = "run_update_profile" /\ last'.n = 1)
        => /\ profiles'[last'.id].updated_at = last'.arg.now
           /\ profiles'[last'.id].updated_at <= clock]_vars

\* an update that set updated_at itself took effect in a transaction that
\* had started before the time of the write
C20_Witness ==
  /\ last.op = "run_update_task"
  /\ last.n = 1
  /\ "updated_at" \in DOMAIN last.arg.set
  /\ last.arg.now < clock
  /\ tasks[last.id].updated_at = last.arg.now

\* C21: in every state every row of task_assignees, task_comments and
\* task_attachments names a task that exists; the delete of a task row
\* takes the rows that name it along in the same step (checked under
\* SpecPurge).
C21_DependentsHaveTask ==
  /\ \A r \in DOMAIN task_assignees : r.task_id \in DOMAIN tasks
  /\ \A c \in DOMAIN task_comments : task_comments[c].task_id \in DOMAIN tasks
  /\ \A a \in DOMAIN task_attachments :
       task_attachments[a].task_id \in DOMAIN tasks

\* a task that had an assignee, a comment and an attachment was deleted
C21_Witness ==
  /\ last.op = "sql_delete_task"
  /\ last.n = 1
  /\ last.id \notin DOMAIN tasks
  /\ last.arg.assignees # {}
  /\ last.arg.comments # {}
  /\ last.arg.attachments # {}

\* C22: in every state the operations of the client reach (create, edit by
\* an admin, status change by an employee, drag and drop, soft-delete,
\* restore) a task has is_deleted = true exactly when its deleted_at is not
\* null (checked under Spec).
C22_FlagIffTimestamp ==
  \A t \in DOMAIN tasks :
    tasks[t].is_deleted = TRUE <=> tasks[t].deleted_at # NULL

\* a task went to the trash and came back, and no task is in the trash
C22_Witness ==
  /\ last.op = "handleRestore"
  /\ last.arg = Restore
  /\ last.n = 1
  /\ \A t \in DOMAIN tasks :
       tasks[t].is_deleted = FALSE /\ tasks[t].deleted_at = NULL

\* C23: the soft-delete of a task and its restore each leave the title,
\* description, status, priority, due_date, category, tags and creator of
\* the task, its assignee set and its comments as they were, so that the two
\* in a row are a round trip; after the restore every user reads all the
\* comments of the task again (checked under SpecTrash).
C23_RoundTrip ==
  [][\A t \in DOMAIN tasks :
       (last'.op \in {"handleDelete", "handleRestore"} /\ last'.id = t)
       => /\ t \in DOMAIN tasks'
          /\ \A c \in {"title", "description", "status", "priority", "due_date",
                       "category", "tags", "created_by"} :
               tasks'[t][c] = tasks[t][c]
          /\ task_assignees' = task_assignees
          /\ task_comments' = task_comments
          /\ (last'.op = "handleRestore" /\ last'.n = 1)
             => \A u \in Users :
                  SelectComments(u, t)' =
                    {c \in DOMAIN task_comments : task_comments[c].task_id = t}]_vars

\* a task with a comment was moved to the trash from the modal and restored
\* from the trash page, and an employee who is not assigned reads the comment
C23_Witness ==
  /\ last.op = "handleRestore"
  /\ last.n = 1
  /\ steps = MaxTrashSteps
  /\ \E c \in DOMAIN task_comments : task_comments[c].task_id = last.id
  /\ \E u \in Users :
       /\ ~IsAdmin(u)
       /\ u \notin AssigneesOf(last.id)
       /\ SelectComments(u, last.id) # {}

\* C24: while the save of an edit by an admin is under way, and after it,
\* the assignee set of the task is the set the modal was opened with or the
\* set ticked in the form, and a user who is in both is not refused a status
\* update (checked under Spec).
C24_AssigneesAllOrNothing ==
  \A u \in Users :
    (modal[u].pc \in {"delete_assignees", "insert_assignees"}
       /\ modal[u].task \in DOMAIN list[u]
       /\ modal[u].task \in DOMAIN tasks)
    => /\ AssigneesOf(modal[u].task)
            \in {list[u][modal[u].task].assignees, modal[u].users}
       /\ \A v \in list[u][modal[u].task].assignees \cap modal[u].users :
            tasks[modal[u].task].is_deleted = FALSE
            => UpdateTask(v, modal[u].task, [status |-> "done"]).n = 1

\* C25: when the INSERT of the assignees of a task that the modal has just
\* created fails, the task row of that attempt is not in the table
\* afterwards (checked under SpecCreate).
C25_CreateAllOrNothing ==
  [][(/\ last'.op = "handleSubmit_insert_assignees"
      /\ last'.err # ""
      /\ last'.id \notin DOMAIN list[last'.by])
     => last'.id \notin DOMAIN tasks']_vars

\* C26: whatever role changes and status toggles the admins issue from
\* their Team pages, with stale lists and overlapping one another, a profile
\* of role admin remains (checked under SpecRoles).
C26_AdminRemains ==
  \E p \in DOMAIN profiles : profiles[p].role = "admin"

\* C27: a status toggle an admin issues from the Team page takes effect,
\* to disabled as well as back to active, and the profile it was applied to
\* is in the Team list of that admin afterwards, where the button for the
\* opposite toggle is (checked under Spec).
C27_DisableIsReversible ==
  [][\A u \in Users : \A p \in DOMAIN profiles :
       (/\ last'.op = "handleToggleStatus"
        /\ last'.by = u
        /\ last'.id = p
        /\ IsAdmin(u))
       => /\ last'.n = 1
          /\ profiles'[p].status = last'.arg.status
          /\ p \in DOMAIN LoadedUsers(u)']_vars

\* C28: while a task is in the trash, an operation of a subject who is not
\* admin changes no column of the task and adds no comment to it, a status
\* save and a comment from a modal opened before the soft-delete included
\* (checked under SpecStale).
C28_TrashedIsFrozenForEmployees ==
  [][\A t \in DOMAIN tasks :
       (tasks[t].is_deleted = TRUE /\ ~IsAdmin(last'.by))
       => /\ t \in DOMAIN tasks'
          /\ tasks'[t] = tasks[t]
          /\ \A c \in DOMAIN task_comments' \ DOMAIN task_comments :
               task_comments'[c].task_id # t]_vars

\* the assignee saved another status in a modal of a task that had gone to
\* the trash, and no row was affected
C28_Witness ==
  /\ last.op = "handleSubmit"
  /\ ~last.admin
  /\ last.id \in DOMAIN tasks
  /\ last.by \in AssigneesOf(last.id)
  /\ tasks[last.id].is_deleted = TRUE
  /\ last.arg.status # tasks[last.id].status
  /\ last.n = 0
  /\ steps = MaxStaleSteps

\* C29: for every user and day, the statistics of the dashboard count only
\* tasks that are not deleted; completed and the three byPriority counts add
\* up to the number of tasks that are not deleted; the tasks counted as
\* overdue and as due today are not done and have a due date, and no task is
\* counted as both (checked under SpecDashboard).
C29_StatsPartition ==
  \A u \in Users : \A today \in Dates :
    LET live == {t \in DOMAIN tasks : tasks[t].is_deleted = FALSE}
        st == Stats(u, today) IN
    /\ st.completed + st.byPriority["low"] + st.byPriority["medium"]
         + st.byPriority["high"] = Cardinality(live)
    /\ OverdueTasks(u, today) \cup DueTodayTasks(u, today) \cup CompletedTasks(u)
         \subseteq live
    /\ \A p \in Priorities : PriorityTasks(u, p) \subseteq live
    /\ OverdueTasks(u, today) \cap DueTodayTasks(u, today) = {}
    /\ \A t \in OverdueTasks(u, today) \cup DueTodayTasks(u, today) :
         tasks[t].status # "done" /\ tasks[t].due_date # NULL
    /\ last.op = "loadDashboardData" /\ last.by = u /\ last.arg.today = today
       => last.arg.stats = st

\* an admin, who can see the trash, loaded the dashboard on a day on which
\* one task was overdue and another one was in the trash
C29_Witness ==
  /\ last.op = "loadDashboardData"
  /\ last.admin
  /\ last.arg.stats.overdue = 1
  /\ last.arg.stats.dueToday = 0
  /\ \E t \in DOMAIN tasks : tasks[t].is_deleted = TRUE
  /\ Cardinality(DOMAIN tasks) = MaxTasks

\* C30: whenever applyFilters has run on the Tasks page of a user, the
\* filtered list is the set of the loaded tasks that satisfy every filter
\* that is set (all of them when none is set), and the counts of the three
\* kanban columns add up to the size of the filtered list, every filtered
\* task being in exactly one column (checked under SpecFilters).
C30_FilteredIsConjunction ==
  last.op = "applyFilters" =>
    LET u == last.by
        f == last.arg.filters
        shown == last.arg.filtered IN
    /\ ~last.arg.threw
    /\ shown =
         {t \in DOMAIN list[u] :
            /\ f.assignee # AllAssignees => f.assignee \in list[u][t].assignees
            /\ f.category # EmptyString => list[u][t].row.category = f.category
            /\ f.tag # EmptyString => f.tag \in list[u][t].row.tags}
    /\ f = [assignee |-> AllAssignees, category |-> EmptyString, tag |-> EmptyString]
         => shown = DOMAIN list[u]
    /\ \A t \in shown :
         Cardinality({i \in 1..3 : t \in Column(u, shown, KanbanColumns[i])}) = 1
    /\ last.arg.counts[1] + last.arg.counts[2] + last.arg.counts[3]
         = Cardinality(shown)

====
